---- MODULE Spec2Model ----
(***************************************************************************)
(* FlexEvent: a publish/subscribe dispatcher with a trie of topic          *)
(* segments, wildcard subscriptions, retained events, once-listeners and   *)
(* synchronous / asynchronous fan-out.                                     *)
(*                                                                         *)
(* Strings are sequences of one-character strings, so that split() is      *)
(* computed and not assumed.  A listener callback is an identity (compared *)
(* by reference in off) together with what a call of it does.              *)
(***************************************************************************)
EXTENDS Integers, Sequences, FiniteSets, TLC

VARIABLES
  listeners,           \* _listeners: Map<number, listener>
  subscribers,         \* _subscribers: the tree of SubscriberNode, by path
  listenerCount,       \* _listenerCount
  retainedEvents,      \* _retainedEvents: Map<string, event>
  onceListeners,       \* _onceListeners: Set<number>
  processedListeners,  \* _processedListeners: Set<number>
  handles,             \* the subscriber objects { off } returned so far
  waits,               \* the waitFor calls so far, by listener id: the promise
                       \* returned, the timer and the subscriber of the closure
  inflight,            \* emitAsync calls that have walked and not yet returned,
                       \* and listener promises that have not yet settled
  history,             \* observation: per listener id, how it was registered,
                       \* how often it was invoked, whether its handle was used
  lastRetain,          \* observation: per topic, the payload of the latest emit
                       \* with retain = true since the store was last emptied
  emits,               \* observation: number of emit / emitAsync calls so far
  removed,             \* observation, kept by SweepAll and ResetAll: the ids
                       \* offAll(p) was to remove, the ids registered before a
                       \* reset, and the topics whose retained event a reset
                       \* dropped and no emit has retained since
  last                 \* observation: the last operation and what it did

vars == <<listeners, subscribers, listenerCount, retainedEvents, onceListeners,
          processedListeners, handles, waits, inflight, history, lastRetain, emits, removed,
          last>>

---------------------------------------------------------------------------
\* Bounds of the model.

\* Listener registrations (on / once / onAny) explored.
MaxListeners == 2
\* emit / emitAsync calls explored.
MaxEmits == 2
\* emitAsync calls in flight at once.
MaxInflight == 1

---------------------------------------------------------------------------
\* Strings.

Delimiter == "."

S_empty == <<>>
S_a == <<"a">>
S_ax == <<"a", ".", "x">>
S_aStar == <<"a", ".", "*">>
S_Star == <<"*">>
S_StarStar == <<"*", "*">>
S_aStarStar == <<"a", ".", "*", "*">>
S_axx == <<"a", ".", "x", ".", "x">>

\* String.prototype.split(delimiter) for a one-character delimiter: the
\* pieces between the delimiters; the empty string gives one empty piece.
RECURSIVE Split(_)
Split(s) ==
  LET at == {i \in 1..Len(s) : s[i] = Delimiter}
  IN IF at = {} THEN <<s>>
     ELSE LET i == CHOOSE j \in at : \A k \in at : j <= k
          IN <<SubSeq(s, 1, i - 1)>> \o Split(SubSeq(s, i + 1, Len(s)))

---------------------------------------------------------------------------
\* Values a listener call can produce.

Undefined == [k |-> "undefined", n |-> 0, items |-> <<>>, ok |-> TRUE]
Num(n) == [k |-> "number", n |-> n, items |-> <<>>, ok |-> TRUE]
Arr(items) == [k |-> "array", n |-> 0, items |-> items, ok |-> TRUE]
\* A promise that later fulfils with Num(n) (ok) or rejects (not ok).
PromiseOf(ok, n) == [k |-> "promise", n |-> n, items |-> <<>>, ok |-> ok]

\* Array.prototype.flat(): one level of nested arrays is spliced in.
RECURSIVE Flat(_)
Flat(xs) ==
  IF xs = <<>> THEN <<>>
  ELSE (IF Head(xs).k = "array" THEN Head(xs).items ELSE <<Head(xs)>>)
       \o Flat(Tail(xs))

\* An event { type, payload }.
Event(type, payload) == [type |-> type, payload |-> payload]

\* What calling a listener does: it throws, or it returns a value.
\* FlexEventListener = (event) => void | Promise<any>
Behaviour(fn) ==
  CASE fn = "handler" -> [throws |-> FALSE, returns |-> Undefined]
    [] fn = "thrower" -> [throws |-> TRUE, returns |-> Undefined]
    [] fn = "getter" -> [throws |-> FALSE, returns |-> Num(1)]
    [] fn = "lister" -> [throws |-> FALSE, returns |-> Arr(<<Num(1), Num(2)>>)]
    [] fn = "asyncOk" -> [throws |-> FALSE, returns |-> PromiseOf(TRUE, 1)]
    [] fn = "asyncFail" -> [throws |-> FALSE, returns |-> PromiseOf(FALSE, 0)]
    [] fn = "waiter" -> [throws |-> FALSE, returns |-> Undefined]
    [] fn \in {"cancel0", "cancel1", "offHandler"} -> [throws |-> FALSE, returns |-> Undefined]

---------------------------------------------------------------------------
\* Maps and insertion-ordered sets.

MapSet(m, key, v) == [x \in DOMAIN m \cup {key} |-> IF x = key THEN v ELSE m[x]]
MapDelete(m, key) == [x \in DOMAIN m \ {key} |-> m[x]]
EmptyMap == [x \in {} |-> 0]

Range(s) == {s[i] : i \in DOMAIN s}
SetAdd(s, x) == IF x \in Range(s) THEN s ELSE Append(s, x)
SetDelete(s, x) == SelectSeq(s, LAMBDA y : y # x)

\* The dispatcher's fields as one record, threaded through the operations.
\* raised: an exception is unwinding; invoked: the listener calls made by the
\* running operation, in order; promises: the promises _processListener
\* returned to the running walk and the walk kept, in order; unhandled: the
\* ids whose promise was rejected when the walk dropped it.
Self ==
  [listeners |-> listeners, subscribers |-> subscribers,
   listenerCount |-> listenerCount, retainedEvents |-> retainedEvents,
   onceListeners |-> onceListeners, processedListeners |-> processedListeners,
   raised |-> FALSE, invoked |-> <<>>, promises |-> <<>>, unhandled |-> <<>>,
   removes |-> <<>>]

\* constructor
NewNode == <<>>
RootPath == <<>>
InitSubscribers == [p \in {RootPath} |-> NewNode]

---------------------------------------------------------------------------
\* _navigateToNode(eventType, create): the node reached, by its path.  Without
\* create the walk stops at the first missing child and returns the node it
\* stands on.
RECURSIVE NavigateFrom(_, _, _, _)
NavigateFrom(subs, current, parts, create) ==
  IF parts = <<>> THEN [subscribers |-> subs, node |-> current]
  ELSE LET child == Append(current, Head(parts))
       IN IF child \notin DOMAIN subs
          THEN IF ~create THEN [subscribers |-> subs, node |-> current]
               ELSE NavigateFrom(MapSet(subs, child, NewNode), child, Tail(parts), create)
          ELSE NavigateFrom(subs, child, Tail(parts), create)

_navigateToNode(subs, eventType, create) ==
  LET parts == Split(eventType)
      r == NavigateFrom(subs, RootPath, parts, create)
  IN [subscribers |-> r.subscribers, node |-> r.node, parts |-> parts]

\* node.listeners.delete(id) on the node object a closure or a walk holds.  A
\* node cut out of the tree (offAll) keeps no id the tree can reach again: ids
\* are never reused, so deleting from it changes nothing observable.
NodeDelete(subs, node, id) ==
  IF node \in DOMAIN subs THEN MapSet(subs, node, SetDelete(subs[node], id)) ELSE subs

\* The subscriber object: off() deletes the captured id from the registry, the
\* once-set (if isOnce) and the captured node; a handle issued after a once
\* replay does nothing.
Handle(id, isOnce, node, noop) == [id |-> id, isOnce |-> isOnce, node |-> node, noop |-> noop]
NoHandle == Handle(-1, FALSE, RootPath, TRUE)

\* _removeListenerFromNode(node, listener): the first entry of the registry
\* (entries are in insertion order, which is id order) with this callback
\* whose id the node holds.
_removeListenerFromNode(st, node, listener) ==
  LET held == Range(st.subscribers[node])
      match == {id \in DOMAIN st.listeners : st.listeners[id] = listener /\ id \in held}
  IN IF match = {} THEN st
     ELSE LET id == CHOOSE i \in match : \A j \in match : i <= j
          IN [st EXCEPT !.subscribers = NodeDelete(@, node, id),
                        !.listeners = MapDelete(@, id),
                        !.onceListeners = @ \ {id}]

\* off(eventType, listener)
off(st, eventType, listener) ==
  LET node == _navigateToNode(st.subscribers, eventType, FALSE).node
  IN _removeListenerFromNode(st, node, listener)

\* A handle that removes by callback, as off does, and not by its id.
SubscriberOffByCallback(st, h) ==
  IF h.noop \/ h.id \notin DOMAIN st.listeners \/ h.node \notin DOMAIN st.subscribers THEN st
  ELSE _removeListenerFromNode(st, h.node, st.listeners[h.id])

\* The off() of a subscriber object returned by _addListener.
SubscriberOff(st, h) ==
  IF h.noop THEN st
  ELSE [st EXCEPT !.listeners = MapDelete(@, h.id),
                  !.onceListeners = IF h.isOnce THEN @ \ {h.id} ELSE @,
                  !.subscribers = NodeDelete(@, h.node, h.id)]

\* Callbacks that cancel a subscription when called: `() => h?.off()`, h
\* being the variable the caller assigns the subscriber of the registration
\* with this id to (-1: the callback cancels nothing).
Cancels(fn) == CASE fn = "cancel0" -> 0 [] fn = "cancel1" -> 1 [] OTHER -> -1

\* The subscriber object such a callback holds, if it has been returned yet.
Held(fn) == {h \in handles : h.id = Cancels(fn)}

\* The registered listener a call of the callback removes: the one of the
\* subscriber it holds, or for `() => events.off('a.x', handler)` the first
\* one with that callback held by the node off navigates to, which is the
\* deepest existing node on the path of 'a.x'.
Aimed(st, fn) ==
  IF fn = "offHandler"
  THEN LET node == _navigateToNode(st.subscribers, S_ax, FALSE).node
           at == {id \in DOMAIN st.listeners :
                    st.listeners[id] = "handler" /\ id \in Range(st.subscribers[node])}
       IN {id \in at : \A other \in at : id <= other}
  ELSE {h.id : h \in {g \in Held(fn) : ~g.noop}} \cap DOMAIN st.listeners

\* A callback whose cancellation has no effect while the dispatcher is busy.
NoEffect(st, fn) == st

\* What the body of a callback does to the dispatcher.
Effect(st, fn) ==
  IF fn = "offHandler" THEN off(st, S_ax, "handler")
  ELSE IF Held(fn) = {} THEN st
  ELSE SubscriberOff(st, CHOOSE h \in Held(fn) : TRUE)

\* What listener(event) does, as the caller sees it.
CallListener(st, listener, id, event) ==
  Effect([st EXCEPT !.invoked = Append(@, [id |-> id, listener |-> listener, event |-> event]),
                    !.removes = Append(@, Aimed(st, listener))],
         listener)

\* _addListener(eventType, listener, isOnce)
_addListener(st, eventType, listener, isOnce) ==
  LET listenerId == st.listenerCount
      nav == _navigateToNode(st.subscribers, eventType, TRUE)
      node == nav.node
      s1 == [st EXCEPT
               !.listenerCount = @ + 1,
               !.listeners = MapSet(@, listenerId, listener),
               !.onceListeners = IF isOnce THEN @ \cup {listenerId} ELSE @,
               !.subscribers = MapSet(nav.subscribers, node,
                                      SetAdd(nav.subscribers[node], listenerId))]
      handle == Handle(listenerId, isOnce, node, FALSE)
  IN IF eventType \in DOMAIN st.retainedEvents
     THEN LET event == st.retainedEvents[eventType]
              s2 == CallListener(s1, listener, listenerId, event)
          IN IF Behaviour(listener).throws
             THEN [st |-> [s2 EXCEPT !.raised = TRUE], handle |-> NoHandle]
             ELSE IF isOnce
                  THEN [st |-> [s2 EXCEPT
                                  !.listeners = MapDelete(@, listenerId),
                                  !.onceListeners = @ \ {listenerId},
                                  !.subscribers = NodeDelete(@, node, listenerId)],
                        handle |-> Handle(listenerId, isOnce, node, TRUE)]
                  ELSE [st |-> s2, handle |-> handle]
     ELSE [st |-> s1, handle |-> handle]

\* on(eventType, listener)
on(st, eventType, listener) == _addListener(st, eventType, listener, FALSE)

\* once(eventType, listener)
once(st, eventType, listener) == _addListener(st, eventType, listener, TRUE)

\* onAny(listener)
onAny(st, listener) == _addListener(st, S_StarStar, listener, FALSE)

---------------------------------------------------------------------------
\* The finally block of _processListener.
Finally(st, node, id) ==
  IF id \in st.onceListeners
  THEN [st EXCEPT !.listeners = MapDelete(@, id),
                  !.onceListeners = @ \ {id},
                  !.subscribers = NodeDelete(@, node, id)]
  ELSE st

\* The promise an async function returns.  state: fulfilled / rejected /
\* pending; awaited: the function is suspended at `await result`, its finally
\* block still to run; flats: the number of .flat() calls the promise's value
\* passes through as an element of the array being flattened.
Promise(id, node, state, value, ok, awaited) ==
  [id |-> id, node |-> node, state |-> state, value |-> value, ok |-> ok,
   awaited |-> awaited, flats |-> 0]

\* async _processListener(node, listener, id, event, isAsync): being async, it
\* turns a throw of the listener into a rejected promise; its finally block
\* runs at once unless it awaits a promise the listener returned.
_processListener(st, node, listener, id, event, isAsync) ==
  LET b == Behaviour(listener)
      s1 == CallListener(st, listener, id, event)
      result == b.returns
      awaits == ~b.throws /\ isAsync /\ result.k = "promise"
      s2 == IF awaits THEN s1 ELSE Finally(s1, node, id)
      p == IF b.throws THEN Promise(id, node, "rejected", Undefined, FALSE, FALSE)
           ELSE IF result.k = "promise"
                THEN Promise(id, node, "pending", Num(result.n), result.ok, awaits)
                ELSE Promise(id, node, "fulfilled", result, TRUE, FALSE)
  IN [s2 EXCEPT !.promises = Append(@, p)]

\* A walk that skips no listener as already processed.
NeverProcessed(st, id) == FALSE

\* this._processedListeners.has(id)
Processed(st, id) == id \in st.processedListeners

\* for (const id of node.listeners): a Set is iterated in insertion order and
\* ids are inserted in increasing order, so the next id is the least one of
\* the live set above the one just visited.
RECURSIVE ListenerLoop(_, _, _, _, _)
ListenerLoop(st, node, after, event, isAsync) ==
  LET live == IF node \in DOMAIN st.subscribers THEN Range(st.subscribers[node]) ELSE {}
      next == {i \in live : i > after}
  IN IF st.raised \/ next = {} THEN st
     ELSE LET id == CHOOSE i \in next : \A j \in next : i <= j
              step ==
                IF Processed(st, id) THEN st
                ELSE IF id \notin DOMAIN st.listeners THEN st
                ELSE LET marked == [st EXCEPT !.processedListeners = @ \cup {id}]
                         done == _processListener(marked, node, st.listeners[id], id, event, isAsync)
                     IN IF isAsync THEN done
                        ELSE \* the promise is dropped
                             [done EXCEPT
                                !.promises = st.promises,
                                !.unhandled = IF Behaviour(st.listeners[id]).throws
                                              THEN Append(@, id) ELSE @]
          IN ListenerLoop(step, node, id, event, isAsync)

\* .then(results => results.flat()) over the node's own promises.
ThenFlat(ps) == [i \in DOMAIN ps |-> [ps[i] EXCEPT !.flats = @ + 1]]

\* _emitToSubscribers(node, parts, event, isAsync)
RECURSIVE _emitToSubscribers(_, _, _, _, _)

\* One of the three child lookups of the walk and the recursive call it makes;
\* a throw in sync mode has already left the walk.
Descend(st, child, rest, event, isAsync) ==
  IF ~st.raised /\ child \in DOMAIN st.subscribers
  THEN _emitToSubscribers(st, child, rest, event, isAsync)
  ELSE st

\* The walk below a node with the '*' child taken before the exact child.
ChildrenWildcardFirst(st, own, node, parts, event, isAsync) ==
  IF parts = <<>> \/ own.raised
  THEN [own EXCEPT !.promises = st.promises \o own.promises]
  ELSE Descend(
         Descend(
           Descend([own EXCEPT !.promises = st.promises \o ThenFlat(own.promises)],
                   Append(node, S_Star), Tail(parts), event, isAsync),
           Append(node, Head(parts)), Tail(parts), event, isAsync),
         Append(node, S_StarStar), <<>>, event, isAsync)

\* The walk below a node once its own listeners have run: the exact child,
\* then '*', then '**' (which takes every remaining segment).
Children(st, own, node, parts, event, isAsync) ==
  IF parts = <<>> \/ own.raised
  THEN [own EXCEPT !.promises = st.promises \o own.promises]
  ELSE Descend(
         Descend(
           Descend([own EXCEPT !.promises = st.promises \o ThenFlat(own.promises)],
                   Append(node, Head(parts)), Tail(parts), event, isAsync),
           Append(node, S_Star), Tail(parts), event, isAsync),
         Append(node, S_StarStar), <<>>, event, isAsync)

_emitToSubscribers(st, node, parts, event, isAsync) ==
  Children(st, ListenerLoop([st EXCEPT !.promises = <<>>], node, -1, event, isAsync),
           node, parts, event, isAsync)

\* Retain with the flag ignored.
RetainAlways(st, event, retain) ==
  [st EXCEPT !.retainedEvents = MapSet(@, event.type, event)]

\* The retain step shared by emit and emitAsync.
Retain(st, event, retain) ==
  IF retain THEN [st EXCEPT !.retainedEvents = MapSet(@, event.type, event)] ELSE st

\* emit(event, retain)
emit(st, event, retain) ==
  LET s1 == Retain(st, event, retain)
      parts == _navigateToNode(s1.subscribers, event.type, FALSE).parts
  IN _emitToSubscribers(s1, RootPath, parts, event, FALSE)

\* emitAsync(event, retain), up to its await: the walk.
emitAsync(st, event, retain) ==
  LET s1 == Retain(st, event, retain)
      parts == _navigateToNode(s1.subscribers, event.type, FALSE).parts
  IN _emitToSubscribers(s1, RootPath, parts, event, TRUE)

\* n applications of flat() to an array.
RECURSIVE FlatN(_, _)
FlatN(xs, n) == IF n = 0 THEN xs ELSE FlatN(Flat(xs), n - 1)

\* What the awaited Promise.all tree resolves to, then results.flat(): each
\* listener's value in walk order, flattened as often as it passes through a
\* flat() as an element.
RECURSIVE Resolved(_)
Resolved(ps) ==
  IF ps = <<>> THEN <<>>
  ELSE FlatN(<<Head(ps).value>>, Head(ps).flats + 1) \o Resolved(Tail(ps))

\* Promise.allSettled(results.flat().filter(r => r !== undefined)) over plain
\* values: every entry is fulfilled.
Outcomes(ps) ==
  LET kept == SelectSeq(Resolved(ps), LAMBDA r : r # Undefined)
  IN [i \in DOMAIN kept |-> [status |-> "fulfilled", value |-> kept[i]]]

---------------------------------------------------------------------------
IsPrefix(p, q) == Len(p) <= Len(q) /\ SubSeq(q, 1, Len(p)) = p

\* A child that stays attached to its parent.
ChildrenKept(subs, child) == subs

\* node.children.delete(current): the child and all below it leave the tree.
ChildrenDelete(subs, child) ==
  [q \in {r \in DOMAIN subs : ~IsPrefix(child, r)} |-> subs[q]]

\* _removeSubscribers(node, parts)
RECURSIVE _removeSubscribers(_, _, _)
_removeSubscribers(st, node, parts) ==
  IF parts = <<>>
  THEN [st EXCEPT
          !.listeners = [x \in DOMAIN @ \ Range(st.subscribers[node]) |-> @[x]],
          !.subscribers = MapSet(@, node, <<>>)]
  ELSE LET child == Append(node, Head(parts))
           rest == Tail(parts)
       IN IF child \in DOMAIN st.subscribers
          THEN LET s1 == _removeSubscribers(st, child, rest)
               IN IF rest = <<>>
                  THEN [s1 EXCEPT !.subscribers = ChildrenDelete(@, child)]
                  ELSE s1
          ELSE st

\* An optional string argument: given or omitted.
Given(s) == [given |-> TRUE, value |-> s]
NoArgument == [given |-> FALSE, value |-> <<>>]
\* !eventType: undefined and the empty string are falsy.
Falsy(arg) == ~arg.given \/ Len(arg.value) = 0

\* offAll that leaves the retained store as it is.
offAllKeepsRetained(st, eventType) ==
  IF Falsy(eventType)
  THEN [st EXCEPT !.listeners = EmptyMap, !.subscribers = InitSubscribers]
  ELSE _removeSubscribers(st, RootPath, _navigateToNode(st.subscribers, eventType.value, FALSE).parts)

\* offAll(eventType?)
offAll(st, eventType) ==
  IF Falsy(eventType)
  THEN [st EXCEPT !.listeners = EmptyMap,
                  !.subscribers = InitSubscribers,
                  !.retainedEvents = EmptyMap]
  ELSE LET parts == _navigateToNode(st.subscribers, eventType.value, FALSE).parts
       IN _removeSubscribers(st, RootPath, parts)

\* clear()
clear(st) == [offAll(st, NoArgument) EXCEPT !.retainedEvents = EmptyMap]

---------------------------------------------------------------------------
\* waitFor.

\* The listener waitFor registers: a closure over resolve and timeoutId.  The
\* closures of two calls are two functions; no operation compares one with a
\* callback of the caller, so one identity stands for them.
Waiter == "waiter"

\* How often the listener with this id was called.
Count(invoked, id) == Cardinality({i \in DOMAIN invoked : invoked[i].id = id})

\* The closure is called: if (timeoutId) clearTimeout(timeoutId); resolve(event).
\* A promise settles once; clearing a timer that has fired changes nothing.
WaiterCallback(w) ==
  [w EXCEPT !.timer = IF @ = "pending" THEN "cleared" ELSE @,
            !.promise = IF @ = "pending" THEN "resolved" ELSE @,
            !.listenerRan = TRUE]

\* waitFor(eventType, timeout): the executor of the promise.  The closure
\* may be called inside once(), by the replay of a retained event, when
\* timeoutId is still undefined; the timer is created after once() returns.
Executor(r, id, eventType, timeout) ==
  LET w == [type |-> eventType, subscriber |-> r.handle, timer |-> "none",
            promise |-> "pending", listenerRan |-> FALSE, timeoutRan |-> FALSE]
      called == IF Count(r.st.invoked, id) > 0 THEN WaiterCallback(w) ELSE w
  IN [st |-> r.st, id |-> id,
      wait |-> IF timeout > 0 THEN [called EXCEPT !.timer = "pending"] ELSE called]

\* waitFor(eventType, timeout)
waitFor(st, eventType, timeout) ==
  Executor(once(st, eventType, Waiter), st.listenerCount, eventType, timeout)

\* A timer callback that rejects and leaves the listener registered.
OnTimeoutKeepsListener(st, w) == st

\* The timer callback of waitFor: subscriber.off(), then reject.
OnTimeout(st, w) == SubscriberOff(st, w.subscriber)

\* reject(new TimeoutError(...)) in the timer callback.
Reject(w) ==
  [w EXCEPT !.timer = "fired",
            !.promise = IF @ = "pending" THEN "rejected" ELSE @,
            !.timeoutRan = TRUE]

\* The waits after an operation that called the listeners in st.invoked.
Waited(ws, st) ==
  [id \in DOMAIN ws |-> IF Count(st.invoked, id) > 0 THEN WaiterCallback(ws[id]) ELSE ws[id]]

---------------------------------------------------------------------------
\* The inputs explored.

\* Patterns listeners are registered at, topics emitted, patterns given to off
\* and arguments given to offAll.
Patterns == {S_a, S_ax, S_aStar}
Topics == {S_a, S_ax}
OffPatterns == {S_a, S_ax}
OffAllPatterns == {S_a, S_empty}
Callbacks == {"handler", "thrower"}
\* Patterns and topics that exercise matching: literal and wildcard
\* segments, the empty string, and topics that are themselves patterns.
MatchPatterns == {S_a, S_ax, S_aStar, S_aStarStar, S_StarStar, S_empty}
MatchTopics == MatchPatterns \cup {S_axx}
\* Callbacks that cancel other subscriptions, and a callback to be cancelled.
CancelCallbacks == {"handler", "cancel0", "cancel1", "offHandler"}
\* Patterns waited for, and the timeout arguments of waitFor in milliseconds
\* (0: no time limit).
WaitPatterns == {S_a, S_ax, S_aStar}
Timeouts == {0, 50}
\* Non-empty patterns given to offAll.
SweepPatterns == {S_a, S_ax}
\* The same with listeners that return arrays and promises.
AsyncPatterns == {S_a, S_ax}
AsyncTopics == {S_a, S_ax}
AsyncCallbacks == {"handler", "thrower", "getter", "lister", "asyncOk", "asyncFail"}
\* The payload of the n-th emitted event is n: events of different calls differ.
Payload == emits + 1

---------------------------------------------------------------------------
\* The state machine.

\* The fields of the dispatcher after an operation.
Install(st) ==
  /\ listeners' = st.listeners
  /\ subscribers' = st.subscribers
  /\ listenerCount' = st.listenerCount
  /\ retainedEvents' = st.retainedEvents
  /\ onceListeners' = st.onceListeners
  /\ processedListeners' = st.processedListeners

Fields == <<listeners, subscribers, listenerCount, retainedEvents, onceListeners,
            processedListeners>>

\* The invocations of an operation, added to the history.
Tally(h, st) == [i \in DOMAIN h |-> [h[i] EXCEPT !.calls = @ + Count(st.invoked, i)]]

Op(op, type, fn, id, retain, st) ==
  [op |-> op, type |-> type, fn |-> fn, id |-> id, retain |-> retain,
   invoked |-> st.invoked, raised |-> st.raised, unhandled |-> st.unhandled,
   status |-> "none", outcomes |-> <<>>, removes |-> st.removes]

Init ==
  /\ listeners = EmptyMap
  /\ subscribers = InitSubscribers
  /\ listenerCount = 0
  /\ retainedEvents = EmptyMap
  /\ onceListeners = {}
  /\ processedListeners = {}
  /\ handles = {}
  /\ waits = EmptyMap
  /\ inflight = <<>>
  /\ history = EmptyMap
  /\ lastRetain = EmptyMap
  /\ emits = 0
  /\ removed = [swept |-> {}, reset |-> {}, wiped |-> {}]
  /\ last = Op("new", S_empty, "", -1, FALSE, Self)

Register(r, op, type, fn, isOnce) ==
  /\ Install(r.st)
  /\ handles' = IF r.st.raised THEN handles ELSE handles \cup {r.handle}
  /\ history' = Tally(MapSet(history, listenerCount,
                             [type |-> type, listener |-> fn, isOnce |-> isOnce,
                              calls |-> 0, cancelled |-> FALSE]), r.st)
  /\ last' = Op(op, type, fn, listenerCount, FALSE, r.st)
  /\ UNCHANGED <<waits, inflight, lastRetain, emits, removed>>

On(P, F) ==
  \E p \in P, fn \in F :
    /\ listenerCount < MaxListeners
    /\ Register(on(Self, p, fn), "on", p, fn, FALSE)

Once(P, F) ==
  \E p \in P, fn \in F :
    /\ listenerCount < MaxListeners
    /\ Register(once(Self, p, fn), "once", p, fn, TRUE)

OnAny(F) ==
  \E fn \in F :
    /\ listenerCount < MaxListeners
    /\ Register(onAny(Self, fn), "onAny", S_StarStar, fn, FALSE)

Emit(T) ==
  \E t \in T, retain \in BOOLEAN :
    /\ emits < MaxEmits
    /\ LET st == emit(Self, Event(t, Payload), retain)
       IN /\ Install(st)
          /\ history' = Tally(history, st)
          /\ last' = Op("emit", t, "", -1, retain, st)
          /\ waits' = Waited(waits, st)
    /\ lastRetain' = IF retain THEN MapSet(lastRetain, t, Payload) ELSE lastRetain
    /\ emits' = emits + 1
    /\ removed' = IF retain THEN [removed EXCEPT !.wiped = @ \ {t}] ELSE removed
    /\ UNCHANGED <<handles, inflight>>

\* emitAsync runs its walk at the call and then awaits.
EmitAsync(T) ==
  \E t \in T, retain \in BOOLEAN :
    /\ emits < MaxEmits
    /\ Len(inflight) < MaxInflight
    /\ LET st == emitAsync(Self, Event(t, Payload), retain)
       IN /\ Install(st)
          /\ history' = Tally(history, st)
          /\ last' = Op("emitAsync", t, "", -1, retain, st)
          /\ waits' = Waited(waits, st)
          /\ inflight' = Append(inflight,
                                [type |-> t, invoked |-> st.invoked,
                                 promises |-> st.promises, returned |-> FALSE])
    /\ lastRetain' = IF retain THEN MapSet(lastRetain, t, Payload) ELSE lastRetain
    /\ emits' = emits + 1
    /\ removed' = IF retain THEN [removed EXCEPT !.wiped = @ \ {t}] ELSE removed
    /\ UNCHANGED handles

Pending(c) == {i \in DOMAIN c.promises : c.promises[i].state = "pending"}
Rejected(c) == {i \in DOMAIN c.promises : c.promises[i].state = "rejected"}
Remove(q, k) == SubSeq(q, 1, k - 1) \o SubSeq(q, k + 1, Len(q))

\* A promise a listener returned settles: the suspended _processListener
\* resumes and runs its finally block.
Settle ==
  \E k \in DOMAIN inflight :
    \E i \in Pending(inflight[k]) :
      LET c == inflight[k]
          pr == c.promises[i]
          c2 == [c EXCEPT !.promises[i].state = IF pr.ok THEN "fulfilled" ELSE "rejected"]
          st == IF pr.awaited THEN Finally(Self, pr.node, pr.id) ELSE Self
      IN /\ Install(st)
         /\ inflight' = IF c2.returned /\ Pending(c2) = {}
                        THEN Remove(inflight, k)
                        ELSE [inflight EXCEPT ![k] = c2]
         /\ last' = Op("settle", c.type, "", pr.id, FALSE, st)
         /\ UNCHANGED <<handles, waits, history, lastRetain, emits, removed>>

\* The await of emitAsync ends: Promise.all rejects as soon as one promise has
\* rejected and otherwise fulfils when all have; only then does emitAsync go
\* on to Promise.allSettled.
Return ==
  \E k \in DOMAIN inflight :
    LET c == inflight[k]
    IN /\ ~c.returned
       /\ Rejected(c) # {} \/ Pending(c) = {}
       /\ last' = [Op("return", c.type, "", -1, FALSE, Self) EXCEPT
                     !.invoked = c.invoked,
                     !.status = IF Rejected(c) # {} THEN "rejected" ELSE "fulfilled",
                     !.outcomes = IF Rejected(c) # {} THEN <<>> ELSE Outcomes(c.promises)]
       /\ inflight' = IF Pending(c) = {} THEN Remove(inflight, k)
                      ELSE [inflight EXCEPT ![k].returned = TRUE]
       /\ UNCHANGED <<Fields, handles, waits, history, lastRetain, emits, removed>>

Off(P, F) ==
  \E p \in P, fn \in F :
    LET st == off(Self, p, fn)
    IN /\ Install(st)
       /\ last' = Op("off", p, fn, -1, FALSE, st)
       /\ UNCHANGED <<handles, waits, inflight, history, lastRetain, emits, removed>>

Cancel ==
  \E h \in handles :
    LET st == SubscriberOff(Self, h)
    IN /\ Install(st)
       /\ history' = [history EXCEPT ![h.id].cancelled = TRUE]
       /\ last' = Op("cancel", S_empty, "", h.id, FALSE, st)
       /\ UNCHANGED <<handles, waits, inflight, lastRetain, emits, removed>>

\* The retained store was emptied by the operation.
Emptied(st) == IF DOMAIN st.retainedEvents = {} THEN EmptyMap ELSE lastRetain

OffAll(P) ==
  \E arg \in {Given(p) : p \in P} \cup {NoArgument} :
    LET st == offAll(Self, arg)
    IN /\ Install(st)
       /\ last' = Op(IF arg.given THEN "offAll(p)" ELSE "offAll()", arg.value, "", -1, FALSE, st)
       /\ lastRetain' = Emptied(st)
       /\ UNCHANGED <<handles, waits, inflight, history, emits, removed>>

Clear ==
  LET st == clear(Self)
  IN /\ Install(st)
     /\ last' = Op("clear", S_empty, "", -1, FALSE, st)
     /\ lastRetain' = Emptied(st)
     /\ UNCHANGED <<handles, waits, inflight, history, emits, removed>>

\* The ids registered at p or at a pattern that extends p by further segments.
Under(p) == {i \in DOMAIN history : IsPrefix(Split(p), Split(history[i].type))}

\* offAll(p) for a non-empty pattern p, with the listeners it is to remove
\* kept on record.
SweepAll(P) ==
  \E p \in P :
    LET st == offAll(Self, Given(p))
    IN /\ Install(st)
       /\ last' = Op("offAll(p)", p, "", -1, FALSE, st)
       /\ lastRetain' = Emptied(st)
       /\ removed' = [removed EXCEPT !.swept = @ \cup Under(p)]
       /\ UNCHANGED <<handles, waits, inflight, history, emits>>

\* offAll() or clear(), with the listeners registered so far and the topics
\* retained so far kept on record.
ResetAll ==
  \E op \in {"offAll()", "clear"} :
    LET st == IF op = "clear" THEN clear(Self) ELSE offAll(Self, NoArgument)
    IN /\ Install(st)
       /\ last' = Op(op, S_empty, "", -1, FALSE, st)
       /\ lastRetain' = Emptied(st)
       /\ removed' = [removed EXCEPT !.reset = @ \cup DOMAIN history,
                                     !.wiped = @ \cup DOMAIN retainedEvents]
       /\ UNCHANGED <<handles, waits, inflight, history, emits>>

\* Synchronous dispatch, with listeners that return nothing or throw.
Next ==
  \/ On(Patterns, Callbacks)
  \/ Once(Patterns, Callbacks)
  \/ OnAny(Callbacks)
  \/ Emit(Topics)
  \/ Off(OffPatterns, Callbacks)
  \/ Cancel
  \/ OffAll(OffAllPatterns)
  \/ Clear

Spec == Init /\ [][Next]_vars

\* Asynchronous dispatch, with listeners that also return values, arrays and
\* promises.
NextAsync ==
  \/ On(AsyncPatterns, AsyncCallbacks)
  \/ Once(AsyncPatterns, AsyncCallbacks)
  \/ EmitAsync(AsyncTopics)
  \/ Settle
  \/ Return
  \/ Cancel

SpecAsync == Init /\ [][NextAsync]_vars

\* The dispatcher and the observations after a waitFor call.
Wait(r, p) ==
  /\ Install(r.st)
  /\ waits' = MapSet(waits, r.id, r.wait)
  /\ history' = Tally(MapSet(history, r.id,
                             [type |-> p, listener |-> Waiter, isOnce |-> TRUE,
                              calls |-> 0, cancelled |-> FALSE]), r.st)
  /\ last' = Op("waitFor", p, Waiter, r.id, FALSE, r.st)
  /\ UNCHANGED <<handles, inflight, lastRetain, emits, removed>>

\* waitFor(p, t)
WaitFor(P, T) ==
  \E p \in P, t \in T :
    /\ listenerCount < MaxListeners
    /\ Wait(waitFor(Self, p, t), p)

\* The timer of a waitFor call fires.
Timeout ==
  \E id \in DOMAIN waits :
    /\ waits[id].timer = "pending"
    /\ LET st == OnTimeout(Self, waits[id])
       IN /\ Install(st)
          /\ last' = Op("timeout", waits[id].type, Waiter, id, FALSE, st)
    /\ waits' = [waits EXCEPT ![id] = Reject(@)]
    /\ UNCHANGED <<handles, inflight, history, lastRetain, emits, removed>>

\* Matching and order of invocation, with listeners that return nothing.
NextMatch ==
  \/ On(MatchPatterns, {"handler"})
  \/ Emit(MatchTopics)
  \/ EmitAsync(MatchTopics)
  \/ Return

SpecMatch == Init /\ [][NextMatch]_vars

\* Cancellation from inside a callback while a walk is in progress.
NextCancel ==
  \/ On(Patterns, CancelCallbacks)
  \/ Emit(Topics)
  \/ EmitAsync(Topics)
  \/ Return

SpecCancel == Init /\ [][NextCancel]_vars

\* Waiting for events, with and without a time limit.
NextWait ==
  \/ WaitFor(WaitPatterns, Timeouts)
  \/ Timeout
  \/ On(WaitPatterns, {"handler"})
  \/ Emit(Topics)

SpecWait == Init /\ [][NextWait]_vars

\* Removal of whole subtrees and resets, with what they removed on record.
NextSweep ==
  \/ On(Patterns, Callbacks)
  \/ Once(Patterns, Callbacks)
  \/ Emit(Topics)
  \/ SweepAll(SweepPatterns)
  \/ ResetAll

SpecSweep == Init /\ [][NextSweep]_vars

---------------------------------------------------------------------------
\* Vocabulary of the properties.

Walks == {"emit", "emitAsync"}
Registrations == {"on", "once", "onAny"}

\* The ids a node of the tree holds, for the node a pattern names.
At(subs, pattern) ==
  IF Split(pattern) \in DOMAIN subs THEN Range(subs[Split(pattern)]) ELSE {}

\* The ids some node of the tree holds.
InTree(subs) == UNION {Range(subs[p]) : p \in DOMAIN subs}

\* How often the last operation invoked a listener id.
Invocations(id) == Count(last.invoked, id)

\* A listener call that fails: it throws, or the promise it returns rejects.
Fails(fn) ==
  \/ Behaviour(fn).throws
  \/ Behaviour(fn).returns.k = "promise" /\ ~Behaviour(fn).returns.ok

---------------------------------------------------------------------------
\* C1: a persistent listener registered with on(p, L) at an exact pattern p
\* and not removed is invoked exactly once by every emit / emitAsync call
\* whose topic is p, the second and later calls as well as the first.
C1_EveryCallInvokesOnce ==
  last.op \in Walks =>
    \A id \in DOMAIN listeners :
      (~history[id].isOnce /\ history[id].type = last.type /\ id \in At(subscribers, last.type))
        => Invocations(id) = 1

\* C2: a listener registered with onAny (pattern '**') is invoked once by each
\* emit call whatever the topic, while a listener on 'a.*' is invoked only
\* for two-segment topics under 'a'.
C2_AnyListenerSeesEveryEmit ==
  last.op \in Walks =>
    /\ \A id \in DOMAIN listeners :
         (~history[id].isOnce /\ history[id].type = S_StarStar
            /\ id \in At(subscribers, S_StarStar))
           => Invocations(id) = 1
    /\ \A i \in DOMAIN last.invoked :
         history[last.invoked[i].id].type = S_aStar
           => Len(Split(last.type)) = 2 /\ Split(last.type)[1] = S_a

\* C3: synchronous emit is fail-fast: a listener that throws ends the call
\* with the failure raised to the caller, and no listener is invoked after it.
C3_EmitFailsFast ==
  last.op = "emit" =>
    \A i \in DOMAIN last.invoked :
      Behaviour(last.invoked[i].listener).throws
        => last.raised /\ i = Len(last.invoked)

\* C4: emitAsync never fails because of a listener: its promise fulfils, and
\* each failing listener shows as one outcome with status 'rejected'.
C4_EmitAsyncNeverRejects ==
  last.op = "return" =>
    /\ last.status = "fulfilled"
    /\ Cardinality({i \in DOMAIN last.outcomes : last.outcomes[i].status = "rejected"})
         = Cardinality({i \in DOMAIN last.invoked : Fails(last.invoked[i].listener)})

\* C5: the sequence emitAsync returns has exactly one entry per listener the
\* call invoked, whatever the listener returned, and is empty exactly when no
\* listener was invoked.
C5_OneOutcomePerListener ==
  (last.op = "return" /\ last.status = "fulfilled") =>
    /\ Len(last.outcomes) = Len(last.invoked)
    /\ (last.outcomes = <<>>) <=> (last.invoked = <<>>)

\* C6: a listener registered with once(T, L) and still subscribed is invoked
\* by an emit of T and is then gone from the registry, the once-set and the
\* tree, and it is invoked at most once in total.
C6_OnceInvokedAtMostOnce ==
  [][\A id \in DOMAIN history' :
       history'[id].isOnce =>
         /\ history'[id].calls <= 1
         /\ (/\ last'.op = "emit"
             /\ history'[id].type = last'.type
             /\ id \in DOMAIN listeners
             /\ id \in At(subscribers, last'.type))
              => /\ Count(last'.invoked, id) = 1
                 /\ id \notin DOMAIN listeners'
                 /\ id \notin onceListeners'
                 /\ id \notin InTree(subscribers')
    ]_vars

\* C7: registration replays a retained event exactly when the pattern string
\* equals the topic of an earlier emit with retain = true (the store not
\* emptied since); the listener then receives the latest such event, once;
\* and an emit with retain = false leaves the store as it is.
C7_RetainedReplayIsLiteral ==
  [][/\ last'.op \in Registrations =>
          IF last'.type \in DOMAIN lastRetain
          THEN last'.invoked = <<[id |-> last'.id, listener |-> last'.fn,
                                  event |-> Event(last'.type, lastRetain[last'.type])]>>
          ELSE last'.invoked = <<>>
     /\ (last'.op \in Walks /\ ~last'.retain) => retainedEvents' = retainedEvents
    ]_vars

\* C7 happens: a listener registered at the literal topic receives the second
\* of two retained events, while that event's topic 'a.x' is also retained.
C7_Witness ==
  /\ last.op = "on"
  /\ last.type = S_ax
  /\ Len(last.invoked) = 1
  /\ last.invoked[1].event = Event(S_ax, 2)
  /\ emits = 2

\* C8: off(pattern, callback) removes at most one listener, one registered at
\* exactly the pattern with that callback; when there is none, the registry
\* and every node of the tree stay as they are.
C8_OffOnlyExactPattern ==
  [][last'.op = "off" =>
       LET exact == {id \in At(subscribers, last'.type) :
                       id \in DOMAIN listeners /\ listeners[id] = last'.fn}
       IN IF exact = {}
          THEN listeners' = listeners /\ subscribers' = subscribers
          ELSE \E id \in exact :
                 /\ listeners' = MapDelete(listeners, id)
                 /\ subscribers' = NodeDelete(subscribers, Split(last'.type), id)
    ]_vars

\* C9: the off() of a subscription handle removes the id it was issued for
\* from the registry, the once-set and its node, and changes nothing else;
\* used again it changes nothing; and no later emit invokes a listener whose
\* handle was used.
C9_CancelRemovesExactlyItsListener ==
  [][/\ last'.op = "cancel" =>
          /\ listeners' = MapDelete(listeners, last'.id)
          /\ subscribers' = [p \in DOMAIN subscribers |-> SetDelete(subscribers[p], last'.id)]
          /\ onceListeners' = onceListeners \ {last'.id}
          /\ UNCHANGED <<retainedEvents, listenerCount, processedListeners>>
          /\ history[last'.id].cancelled => UNCHANGED Fields
     /\ last'.op \in Walks =>
          \A i \in DOMAIN last'.invoked : ~history[last'.invoked[i].id].cancelled
    ]_vars

\* C9 happens: a handle was used while a second listener with the same
\* callback at the same pattern stays registered, and an event is retained.
C9_Witness ==
  /\ last.op = "cancel"
  /\ last.id \notin DOMAIN listeners
  /\ DOMAIN retainedEvents # {}
  /\ \E other \in DOMAIN listeners :
       /\ history[other].listener = history[last.id].listener
       /\ history[other].type = history[last.id].type
       /\ other \in At(subscribers, history[other].type)

\* C10: offAll(p) with a pattern argument, the empty string included, leaves
\* the retained store and every listener registered neither at p nor below p
\* as they are.
C10_OffAllPatternKeepsOthers ==
  [][last'.op = "offAll(p)" =>
       /\ retainedEvents' = retainedEvents
       /\ \A id \in DOMAIN listeners :
            ~IsPrefix(Split(last'.type), Split(history[id].type))
              => /\ id \in DOMAIN listeners'
                 /\ id \in At(subscribers', history[id].type)
    ]_vars

\* C11: after offAll(p) for a non-empty pattern p, no later emit invokes a
\* listener that was registered at p or at a pattern extending p by further
\* segments, also when new listeners have been registered under that path.
C11_SweptListenersStaySilent ==
  last.op \in Walks => \A id \in removed.swept : Invocations(id) = 0

\* C11 happens: an emit of the topic a swept listener was registered at
\* invokes a listener registered there after the offAll, and not the swept
\* one, which no emit had reached before.
C11_Witness ==
  /\ last.op = "emit"
  /\ \E old \in removed.swept, new \in DOMAIN history \ removed.swept :
       /\ history[old].calls = 0
       /\ history[old].type = last.type
       /\ history[new].type = last.type
       /\ Invocations(new) = 1

\* C12: offAll() without argument and clear() leave the registry, the nodes
\* of the tree and the retained store empty; no listener registered before is
\* invoked by a later emit, and registering at a topic whose retained event
\* was dropped replays nothing.
C12_ResetEmptiesEverything ==
  /\ last.op \in {"offAll()", "clear"} =>
       listeners = EmptyMap /\ InTree(subscribers) = {} /\ retainedEvents = EmptyMap
  /\ last.op \in Walks => \A id \in removed.reset : Invocations(id) = 0
  /\ (last.op \in Registrations /\ last.type \in removed.wiped) => last.invoked = <<>>

\* C12 happens: after a reset that dropped the retained event of a topic, a
\* listener is registered at that topic, while a listener registered before
\* the reset had received the event.
C12_Witness ==
  /\ last.op = "on"
  /\ last.type \in removed.wiped
  /\ \E id \in removed.reset : history[id].type = last.type /\ history[id].calls = 1

\* C13: when the timer of waitFor(p, t), t > 0, fires before any event has
\* reached the wait, the promise rejects (with a TimeoutError) and the wait's
\* once listener is gone from the registry, the once-set and the tree; from
\* then on the promise stays rejected and no operation calls that listener.
C13_TimeoutRejectsAndCleansUp ==
  [][/\ (last'.op = "timeout" /\ ~waits[last'.id].listenerRan) =>
          /\ waits'[last'.id].promise = "rejected"
          /\ last'.id \notin DOMAIN listeners'
          /\ last'.id \notin onceListeners'
          /\ last'.id \notin InTree(subscribers')
     /\ \A id \in DOMAIN waits :
          waits[id].promise = "rejected" =>
            waits'[id].promise = "rejected" /\ Count(last'.invoked, id) = 0
    ]_vars

\* C13 happens: after a wait has timed out, its topic is emitted and another
\* listener receives the event.
C13_Witness ==
  /\ last.op = "emit"
  /\ Len(last.invoked) > 0
  /\ \E id \in DOMAIN waits :
       /\ waits[id].promise = "rejected"
       /\ waits[id].type = last.type
       /\ Invocations(id) = 0

\* C14: of the two triggers of a waitFor call exactly one ever fires: once the
\* listener has run (by an emit or by the replay of a retained event) no
\* timer of the wait is pending and the timer callback never runs, and once
\* the timer callback has run the listener never runs.
C14_OnlyOneTriggerFires ==
  \A id \in DOMAIN waits :
    /\ ~(waits[id].listenerRan /\ waits[id].timeoutRan)
    /\ waits[id].promise = "resolved" => waits[id].timer # "pending"

\* A pattern of literal and '*' segments matches a topic when both have the
\* same number of segments and each pattern segment is '*' or the topic's.
SegmentsMatch(pattern, topic) ==
  /\ Len(Split(pattern)) = Len(Split(topic))
  /\ \A k \in DOMAIN Split(pattern) :
       Split(pattern)[k] = S_Star \/ Split(pattern)[k] = Split(topic)[k]

\* The listeners now registered, persistent and held by the node of their
\* pattern.
Subscribed ==
  {id \in DOMAIN listeners : ~history[id].isOnce /\ id \in At(subscribers, history[id].type)}

\* C15: a listener at a pattern without '**' is invoked by emit(t) if and
\* only if t has as many segments as the pattern and each pattern segment is
\* '*' or equal to the topic's segment; a topic with further trailing
\* segments does not match.
C15_SegmentCountExact ==
  last.op \in Walks =>
    \A id \in Subscribed :
      (\A k \in DOMAIN Split(history[id].type) : Split(history[id].type)[k] # S_StarStar)
        => (Invocations(id) > 0 <=> SegmentsMatch(history[id].type, last.type))

\* C16: a listener at 'a.**' is invoked once by every emit whose topic is 'a'
\* or extends 'a' by one or more segments.
C16_DoubleWildcardMatchesZeroSegments ==
  (last.op \in Walks /\ Head(Split(last.type)) = S_a) =>
    \A id \in Subscribed : history[id].type = S_aStarStar => Invocations(id) = 1

\* Where the walk of a topic takes a child segment: the exact child first,
\* then '*', then '**'.
Turn(segment, k, topic) ==
  IF k <= Len(topic) /\ segment = topic[k] THEN 0 ELSE IF segment = S_Star THEN 1 ELSE 2

\* Listener i at node p is started before listener j at node q by a
\* depth-first walk of the topic: a node before the nodes below it, and of two
\* branches the one taken first.
StartsBefore(p, i, q, j, topic) ==
  IF p = q THEN i < j
  ELSE IF IsPrefix(p, q) THEN TRUE
  ELSE IF IsPrefix(q, p) THEN FALSE
  ELSE LET k == CHOOSE n \in DOMAIN p : p[n] # q[n] /\ SubSeq(p, 1, n - 1) = SubSeq(q, 1, n - 1)
       IN Turn(p[k], k, topic) < Turn(q[k], k, topic)

\* C17: within one emit / emitAsync call the listeners are started in a fixed
\* order: a node's own listeners in registration order, then the exact child
\* and all below it, then the '*' child, then the '**' child.
C17_InvocationOrder ==
  last.op \in Walks =>
    \A i, j \in DOMAIN last.invoked :
      i < j => StartsBefore(Split(history[last.invoked[i].id].type), last.invoked[i].id,
                            Split(history[last.invoked[j].id].type), last.invoked[j].id,
                            Split(last.type))

\* C17 happens: a walk starts a listener of the exact child before one of the
\* '*' child that was registered earlier.
C17_Witness ==
  /\ last.op \in Walks
  /\ Len(last.invoked) = 2
  /\ history[last.invoked[1].id].type = S_ax
  /\ history[last.invoked[2].id].type = S_aStar
  /\ last.invoked[2].id < last.invoked[1].id

\* C18: whatever operations have run, the ids in the registry are the ids
\* held by the nodes reachable from the root of the tree.
C18_RegistryMatchesTree ==
  DOMAIN listeners = InTree(subscribers)

\* C19: one emit / emitAsync call invokes no listener id twice, also when the
\* topic has literal '*' or '**' segments, and on(p, h) followed at once by
\* emit(p) invokes the new listener exactly once.
C19_NoDoubleInvocation ==
  [][last'.op \in Walks =>
       /\ \A id \in DOMAIN history : Count(last'.invoked, id) <= 1
       /\ (last.op = "on" /\ last'.type = last.type) => Count(last'.invoked, last.id) = 1
    ]_vars

\* C19 happens: the topic emitted is itself a wildcard pattern, and the
\* listener registered at it, whose node the walk reaches by the exact branch
\* and by a wildcard branch, is invoked once.
C19_Witness ==
  /\ last.op \in Walks
  /\ last.type \in {S_aStar, S_StarStar, S_aStarStar}
  /\ \E id \in Subscribed : history[id].type = last.type /\ Invocations(id) = 1

\* C20: in emit and in emitAsync a once listener is gone from the registry,
\* the once-set and its node as soon as its callback has been called, before
\* the call returns, whatever the callback returns or throws.
C20_OnceRemovedAtInvocation ==
  last.op \in Walks =>
    \A i \in DOMAIN last.invoked :
      history[last.invoked[i].id].isOnce =>
        /\ last.invoked[i].id \notin DOMAIN listeners
        /\ last.invoked[i].id \notin onceListeners
        /\ last.invoked[i].id \notin InTree(subscribers)

\* C21: once(p, L) called while an event is retained for exactly p invokes L
\* with it, and when the call ends - also by a throw of L - the id is in
\* neither the registry, the once-set nor the node, and a handle returned for
\* it does nothing.
C21_OnceReplayAlwaysUnregisters ==
  (last.op = "once" /\ last.invoked # <<>>) =>
    /\ last.id \notin DOMAIN listeners
    /\ last.id \notin onceListeners
    /\ last.id \notin InTree(subscribers)
    /\ \A h \in handles : h.id = last.id => h.noop

\* C22: when a callback, during a walk, cancels the subscription of another
\* listener (by its handle or by off) that this walk has not invoked yet, in
\* the same node or in a node still to come, this walk does not invoke that
\* listener.
C22_CancellationIsImmediate ==
  last.op \in Walks =>
    \A i, j \in DOMAIN last.invoked :
      i < j => last.invoked[j].id \notin last.removes[i]

\* C22 happens: a callback of the walk cancelled another listener registered
\* at the very topic emitted, which no walk had invoked before, and the walk
\* did not invoke it.
C22_Witness ==
  /\ last.op \in Walks
  /\ \E i \in DOMAIN last.invoked :
       \E k \in last.removes[i] :
         /\ k # last.invoked[i].id
         /\ history[k].type = last.type
         /\ history[k].calls = 0

====
